---- MODULE Spec2Model ----
(***************************************************************************)
(* The recursive schema engine of bpo.datamodel: Model.load / _parse_value *)
(* (type-directed parsing into a tree of nodes with parent links and       *)
(* paths), Model.dump, the validator registry (BaseModel.add_validator,    *)
(* utils.validate) and the two-pass breadth-first Model.validate.          *)
(*                                                                         *)
(* Python objects that have identity (dataclass instances, lists, the      *)
(* dicts built by dump) live in a heap, a sequence of objects; a reference *)
(* is the index of the object.  Immutable scalars (None, int, str, enum    *)
(* members) are plain values.  Raw input documents are immutable trees.    *)
(* A dotted path "root.b.0" is the sequence of its segments.               *)
(***************************************************************************)
EXTENDS Integers, Sequences, FiniteSets, TLC

\* ------------------------------------------------------------- bounds
\* Most validators registered during the bootstrap phase.
MaxRegs == 3
\* Longest sequence in an input document.
MaxItems == 2

\* ------------------------------------------------------------- values
None == [k |-> "none"]
IntV(n) == [k |-> "int", v |-> n]
StrV(s) == [k |-> "str", v |-> s]
EnumV(cls, name) == [k |-> "enum", cls |-> cls, name |-> name]
\* raw documents: a dict is a function on its keys, a list a sequence
RawDict(map) == [k |-> "dict", v |-> map]
RawList(items) == [k |-> "list", v |-> items]
\* a reference to a heap object
Ref(id) == [k |-> "ref", id |-> id]

IsRef(value) == value.k = "ref"

\* ------------------------------------------------------------- schema
\* Annotations, as typing.get_origin / get_args / inspect.isclass see them.
TNone == [t |-> "NoneType"]
TInt == [t |-> "class", name |-> "int"]
TStr == [t |-> "class", name |-> "str"]
TEnum == [t |-> "class", name |-> "E"]
TModel(name) == [t |-> "model", name |-> name]
TUnion(args) == [t |-> "Union", args |-> args]
TList(arg) == [t |-> "list", arg |-> arg]
TOptional(arg) == TUnion(<<arg, TNone>>)

\* enum E: its members in definition order and their underlying values
EnumMembers == <<"A", "B">>
EnumValue(name) == IF name = "A" THEN IntV(1) ELSE IntV(2)

\* cls.__annotations__ of the datamodel classes, in declaration order.
\* A, B and C are the example records of get_attr_by_dot_notation's
\* docstring, widened with an enum, a variant in both orders, a sequence of
\* scalars and a sequence of sequences.
Annotations(cls) ==
    CASE cls = "C" -> << <<"x", TOptional(TInt)>>,
                         <<"e", TOptional(TEnum)>> >>
      [] cls = "B" -> << <<"c_obj", TOptional(TModel("C"))>>,
                         <<"c_objs", TList(TModel("C"))>> >>
      [] cls = "A" -> << <<"kind", TUnion(<<TInt, TStr>>)>>,
                         <<"alt", TUnion(<<TStr, TInt>>)>>,
                         <<"b_obj", TOptional(TModel("B"))>>,
                         <<"es", TList(TEnum)>>,
                         <<"grid", TList(TList(TModel("C")))>> >>

Classes == {"A", "B", "C"}

FieldNames(cls) == {Annotations(cls)[i][1] : i \in 1..Len(Annotations(cls))}

\* ------------------------------------------------------------- exceptions
NoExc == [type |-> "none"]
Exc(type) == [type |-> type]
\* ModelParsingException(attr_path, type, attr_value) from cause
ModelParsingException(attr_path, annotation, attr_value, cause) ==
    [type |-> "ModelParsingException", attr_path |-> attr_path,
     annotation |-> annotation, attr_value |-> attr_value, cause |-> cause]

\* ------------------------------------------------------------- scalar construction
\* The integers a decimal string of the model can denote.
IntRange == 0..9

\* annotation(value) for the scalar classes int, str and E
Construct(name, value) ==
    IF name = "int" THEN
        CASE value.k = "int" -> [ok |-> TRUE, val |-> value]
          [] value.k = "str" ->
               IF \E n \in IntRange : ToString(n) = value.v
               THEN [ok |-> TRUE,
                     val |-> IntV(CHOOSE n \in IntRange : ToString(n) = value.v)]
               ELSE [ok |-> FALSE, exc |-> Exc("ValueError")]
          [] value.k \in {"enum", "dict", "list"} ->
               [ok |-> FALSE, exc |-> Exc("TypeError")]
    ELSE IF name = "str" THEN
        CASE value.k = "str" -> [ok |-> TRUE, val |-> value]
          [] value.k = "int" -> [ok |-> TRUE, val |-> StrV(ToString(value.v))]
    ELSE \* name = "E"
        CASE value.k = "enum" -> [ok |-> TRUE, val |-> value]
          [] value.k = "int" ->
               IF \E i \in 1..Len(EnumMembers) : EnumValue(EnumMembers[i]) = value
               THEN [ok |-> TRUE,
                     val |-> EnumV("E", EnumMembers[CHOOSE i \in 1..Len(EnumMembers) :
                                                     EnumValue(EnumMembers[i]) = value])]
               ELSE [ok |-> FALSE, exc |-> Exc("ValueError")]
          [] value.k \in {"str", "dict", "list"} ->
               [ok |-> FALSE, exc |-> Exc("ValueError")]

\* ------------------------------------------------------------- parsing
\* The interpreter state threaded through a load: the heap and the trace of
\* _parse_value calls (annotation and attribute path of each, in call order).
Alloc(st, obj) == [st EXCEPT !.heap = Append(@, obj)]
NewId(st) == Len(st.heap) + 1
Ok(st, val) == [ok |-> TRUE, st |-> st, val |-> val]
Raise(st, exc) == [ok |-> FALSE, st |-> st, exc |-> exc]

\* f"{attribute_path}.{index}" and f"{parent_path}.{attribute}"
Dot(path, segment) == Append(path, segment)

RECURSIVE ParseValue(_, _, _, _)
RECURSIVE ParseUnion(_, _, _, _, _)
RECURSIVE ParseList(_, _, _, _, _, _)
RECURSIVE LoadFields(_, _, _, _, _, _)
RECURSIVE Load(_, _, _, _)

\* Model._parse_value
ParseValue(st0, value, annotation, attribute_path) ==
    LET st == [st0 EXCEPT !.trace = Append(@, <<annotation, attribute_path>>)] IN
    IF annotation.t = "NoneType" \/ value = None THEN Ok(st, None)
    ELSE IF annotation.t = "model" THEN Load(st, annotation.name, value, attribute_path)
    ELSE IF annotation.t = "class" THEN
        LET r == Construct(annotation.name, value) IN
        IF r.ok THEN Ok(st, r.val) ELSE Raise(st, r.exc)
    ELSE IF annotation.t = "Union" THEN
        ParseUnion(st, value, annotation.args, attribute_path, 1)
    ELSE IF annotation.t = "list" THEN
        IF value.k = "list"
        THEN ParseList(st, value.v, annotation.arg, attribute_path, 1, <<>>)
        ELSE Raise(st, Exc("TypeError"))   \* enumerate() of an int
    ELSE Ok(st, None)

\* the loop over annotation_args of a Union: the first alternative whose
\* parse is not None is returned; falling off the loop returns None
ParseUnion(st, value, annotation_args, attribute_path, i) ==
    IF i > Len(annotation_args) THEN Ok(st, None)
    ELSE LET r == ParseValue(st, value, annotation_args[i], attribute_path) IN
         IF ~r.ok THEN r
         ELSE IF r.val # None THEN r
         ELSE ParseUnion(r.st, value, annotation_args, attribute_path, i + 1)

RECURSIVE ParseListNoIndex(_, _, _, _, _, _)
\* the loop over a list that hands the path of the field to every element
ParseListNoIndex(st, items, annotation_arg, attribute_path, i, parsed_list) ==
    IF i > Len(items)
    THEN Ok(Alloc(st, [k |-> "list", v |-> parsed_list]), Ref(NewId(st)))
    ELSE LET r == ParseValue(st, items[i], annotation_arg, attribute_path) IN
         IF ~r.ok THEN r
         ELSE ParseListNoIndex(r.st, items, annotation_arg, attribute_path, i + 1,
                               Append(parsed_list, r.val))

\* the loop over enumerate(value) of a list annotation; the list object is
\* allocated once its items are parsed (ids are names only)
ParseList(st, items, annotation_arg, attribute_path, i, parsed_list) ==
    IF i > Len(items)
    THEN Ok(Alloc(st, [k |-> "list", v |-> parsed_list]), Ref(NewId(st)))
    ELSE LET r == ParseValue(st, items[i], annotation_arg,
                             Dot(attribute_path, ToString(i - 1))) IN
         IF ~r.ok THEN r
         ELSE ParseList(r.st, items, annotation_arg, attribute_path, i + 1,
                        Append(parsed_list, r.val))

\* the heap with _parent_ref of every node among `children` set to `parent`
SetParent(heap, children, parent) ==
    [id \in DOMAIN heap |->
        IF id \in children THEN [heap[id] EXCEPT !.parent_ref = parent] ELSE heap[id]]

\* the nodes that load's backfill loop reaches from one field value
DirectNodes(heap, value) ==
    IF ~IsRef(value) THEN {}
    ELSE IF heap[value.id].k = "node" THEN {value.id}
    ELSE IF heap[value.id].k = "list"
         THEN {el.id : el \in {e \in {heap[value.id].v[i] : i \in 1..Len(heap[value.id].v)} :
                                 IsRef(e) /\ heap[e.id].k = "node"}}
         ELSE {}

\* the loop of load over cls.__annotations__
LoadFields(st, cls, input_dict, parent_path, i, processed_input) ==
    IF i > Len(Annotations(cls)) THEN Ok(st, processed_input)
    ELSE LET attribute == Annotations(cls)[i][1]
             annotation == Annotations(cls)[i][2]
         IN  IF input_dict.k # "dict" THEN Raise(st, Exc("AttributeError"))  \* no .get
             ELSE
             LET attr_value == IF attribute \in DOMAIN input_dict.v
                               THEN input_dict.v[attribute] ELSE None
                 attribute_path == Dot(parent_path, attribute)
                 r == ParseValue(st, attr_value, annotation, attribute_path)
             IN  IF ~r.ok
                 THEN Raise(r.st, ModelParsingException(attribute_path, annotation,
                                                        attr_value, r.exc))
                 ELSE LoadFields(r.st, cls, input_dict, parent_path, i + 1,
                                 processed_input @@ (attribute :> r.val))

\* Model.load
Load(st, cls, input_dict, parent_path) ==
    LET r == LoadFields(st, cls, input_dict, parent_path, 1, <<>>) IN
    IF ~r.ok THEN r
    ELSE LET processed_input == r.val
             parsed_root == NewId(r.st)
             st1 == Alloc(r.st, [k |-> "node", cls |-> cls, fields |-> processed_input,
                                 parent_path |-> parent_path, parent_ref |-> 0])
             children == UNION {DirectNodes(st1.heap, processed_input[f]) :
                                   f \in DOMAIN processed_input}
         IN  Ok([st1 EXCEPT !.heap = SetParent(@, children, parsed_root)],
                Ref(parsed_root))

EmptyState == [heap |-> <<>>, trace |-> <<>>]

\* ------------------------------------------------------------- dump
RECURSIVE AsDictInner(_, _)
RECURSIVE AsDictFields(_, _, _, _)
RECURSIVE AsDictItems(_, _, _, _)

\* asdict as a view: a list is handed out as it is instead of being copied
AsDictInnerView(heap, value) ==
    IF ~IsRef(value) THEN [heap |-> heap, val |-> value]
    ELSE IF heap[value.id].k = "node" THEN AsDictFields(heap, value.id, 1, <<>>)
    ELSE [heap |-> heap, val |-> value]

\* dataclasses.asdict: a dataclass instance becomes a new dict of its
\* fields (order: the keys in insertion order), a list a new list of its
\* converted items, anything else is deep-copied (an immutable scalar or
\* enum member is itself)
AsDictInner(heap, value) ==
    IF ~IsRef(value) THEN [heap |-> heap, val |-> value]
    ELSE IF heap[value.id].k = "node" THEN AsDictFields(heap, value.id, 1, <<>>)
    ELSE AsDictItems(heap, heap[value.id].v, 1, <<>>)

AsDictFields(heap, id, i, result) ==
    LET fields == Annotations(heap[id].cls) IN
    IF i > Len(fields)
    THEN [heap |-> Append(heap, [k |-> "dict",
                                 order |-> [j \in 1..Len(fields) |-> fields[j][1]],
                                 v |-> result]),
          val |-> Ref(Len(heap) + 1)]
    ELSE LET r == AsDictInner(heap, heap[id].fields[fields[i][1]]) IN
         AsDictFields(r.heap, id, i + 1, result @@ (fields[i][1] :> r.val))

AsDictItems(heap, items, i, result) ==
    IF i > Len(items)
    THEN [heap |-> Append(heap, [k |-> "list", v |-> result]), val |-> Ref(Len(heap) + 1)]
    ELSE LET r == AsDictInner(heap, items[i]) IN
         AsDictItems(r.heap, items, i + 1, Append(result, r.val))

AsDict(heap, ref) == AsDictInner(heap, ref)

\* the dicts dump pushes for one value of the dict it is visiting
PushedFor(heap, value) ==
    IF ~IsRef(value) THEN <<>>
    ELSE IF heap[value.id].k = "dict" THEN <<value.id>>
    ELSE IF heap[value.id].k = "list"
         THEN LET items == heap[value.id].v
                  IsDict(v) == IsRef(v) /\ heap[v.id].k = "dict"
              IN  [j \in 1..Len(SelectSeq(items, IsDict)) |-> SelectSeq(items, IsDict)[j].id]
         ELSE <<>>

RECURSIVE Flatten(_)
Flatten(seqs) == IF seqs = <<>> THEN <<>> ELSE Head(seqs) \o Flatten(Tail(seqs))

\* one pass of dump's for loop over node.items(): an enum value of the
\* dict is replaced by its .value
NormalizeDict(map) ==
    [key \in DOMAIN map |-> IF map[key].k = "enum" THEN EnumValue(map[key].name)
                            ELSE map[key]]

RECURSIVE DumpLoop(_, _)
\* the while loop of dump over its stack of dicts
DumpLoop(heap, stack) ==
    IF stack = <<>> THEN heap
    ELSE LET node == stack[Len(stack)]
             rest == SubSeq(stack, 1, Len(stack) - 1)
             map == heap[node].v
             pushed == Flatten([i \in 1..Len(heap[node].order) |->
                                   PushedFor(heap, map[heap[node].order[i]])])
         IN  DumpLoop([heap EXCEPT ![node].v = NormalizeDict(map)], rest \o pushed)

\* Model.dump
Dump(heap, self) ==
    LET r == AsDict(heap, self) IN
    [heap |-> DumpLoop(r.heap, <<r.val.id>>), val |-> r.val]

\* ------------------------------------------------------------- registry
\* A class's _validators / _critical_validators: None, or a defaultdict(list)
\* from field to its entries; order holds the keys in insertion order.
NoMap == [k |-> "none"]
EmptyMap == [k |-> "map", order |-> <<>>, v |-> <<>>]

\* validators_map[field].append(entry) on a defaultdict(list)
MapAppend(validators_map, field, entry) ==
    IF field \in DOMAIN validators_map.v
    THEN [validators_map EXCEPT !.v[field] = Append(@, entry)]
    ELSE [k |-> "map", order |-> Append(validators_map.order, field),
          v |-> validators_map.v @@ (field :> <<entry>>)]

\* BaseModel.add_validator: the registries after the call, as
\* [critical |-> ..., normal |-> ...], each a function of the class
AddValidator(reg, cls, field, validator_func, critical, when) ==
    LET entry == [func |-> validator_func, when |-> when] IN
    IF critical
    THEN LET m == IF reg.critical[cls] = NoMap THEN EmptyMap ELSE reg.critical[cls]
         IN  [reg EXCEPT !.critical[cls] = MapAppend(m, field, entry)]
    ELSE LET m == IF reg.normal[cls] = NoMap THEN EmptyMap ELSE reg.normal[cls]
         IN  [reg EXCEPT !.normal[cls] = MapAppend(m, field, entry)]

\* get_all_properties of utils.validate: the annotations' keys and the public
\* non-callable class members (a datamodel class without defaults has none)
GetAllProperties(cls) == FieldNames(cls)

\* the decorator returned by utils.validate(model, field, critical, when),
\* applied to a callable: the registries after it and what it raised
ValidateDecorator(reg, cls, field, callable, critical, when) ==
    LET reg1 == AddValidator(reg, cls, field, callable, critical, when) IN
    IF field \notin GetAllProperties(cls)
    THEN [reg |-> reg1, exc |-> Exc("AttributeError")]
    ELSE [reg |-> reg1, exc |-> NoExc]

\* ------------------------------------------------------------- validators
\* len(service_desc) > 50 in validate_evpn_svc_description
DescLimit == 50

\* The validator functions of the model.  validate_evpn_svc_description is
\* the repository's; required and probe stand for callables a bootstrap step
\* registers: required reports an empty value, probe asks for every
\* injectable argument and reports what it was given.
ValidatorFuncs == {"validate_evpn_svc_description", "required", "probe"}

\* tuple(inspect.signature(validator_func).parameters)
Signature(validator_func) ==
    CASE validator_func = "validate_evpn_svc_description" -> <<"service_desc", "root_ref">>
      [] validator_func = "required" -> <<"value", "attr_path">>
      [] validator_func = "probe" ->
            <<"value", "parent_path", "attr_path", "root_ref", "parent_ref">>

\* one step up the parent chain instead of all of them
GetRootRefOneStep(heap, node) ==
    IF heap[node].parent_ref # 0 THEN heap[node].parent_ref ELSE node

RECURSIVE GetRootRef(_, _)
\* utils.get_root_ref
GetRootRef(heap, node) ==
    IF heap[node].parent_ref # 0 THEN GetRootRef(heap, heap[node].parent_ref) ELSE node

\* the attribute path without the path of the holding node
GetAttrPathFromRoot(heap, model, attr) == <<"root", attr>>

\* utils.get_attr_path: split on ".", append attr, join
GetAttrPath(heap, model, attr) == heap[model].parent_path \o <<attr>>

\* the value one requested parameter is given
ExtraArg(heap, self, field, v_func_param) ==
    CASE v_func_param = "parent_path" -> [given |-> TRUE, path |-> heap[self].parent_path]
      [] v_func_param = "attr_path" -> [given |-> TRUE, path |-> Dot(heap[self].parent_path, field)]
      [] v_func_param = "root_ref" -> [given |-> TRUE, ref |-> GetRootRef(heap, self)]
      [] v_func_param = "parent_ref" -> [given |-> TRUE, ref |-> self]
      [] OTHER -> [given |-> FALSE]

\* Model._get_extra_validate_args: the keyword arguments, by parameter name
GetExtraValidateArgs(heap, self, validator_func, field) ==
    LET params == Tail(Signature(validator_func))
        wanted == {params[i] : i \in 1..Len(params)}
    IN  [p \in {q \in wanted : ExtraArg(heap, self, field, q).given} |->
            ExtraArg(heap, self, field, p)]

\* len(value) of a field value, or -1 where len raises TypeError
PyLen(heap, value) ==
    CASE value.k = "str" -> Len(value.v)
      [] IsRef(value) /\ heap[value.id].k = "list" -> Len(heap[value.id].v)
      [] OTHER -> -1

\* validator(field_value, **args): returns None, returns an error value,
\* or raises
CallValidator(heap, validator_func, field_value, args) ==
    CASE validator_func = "validate_evpn_svc_description" ->
            IF PyLen(heap, field_value) < 0 THEN [out |-> "raise", exc |-> Exc("TypeError")]
            ELSE IF PyLen(heap, field_value) > DescLimit
                 THEN [out |-> "error",
                       res |-> [attributeName |-> "description",
                                errorMessage |-> "description length too long"]]
                 ELSE [out |-> "none"]
      [] validator_func = "required" ->
            IF field_value = None
            THEN [out |-> "error", res |-> [attributeName |-> args["attr_path"].path,
                                            errorMessage |-> "required"]]
            ELSE [out |-> "none"]
      [] validator_func = "probe" ->
            [out |-> "error", res |-> [attributeName |-> args["attr_path"].path,
                                       errorMessage |-> "probe", given |-> args]]

\* ------------------------------------------------------------- validation
\* ModelValidationException(attr_path, validation_func) from cause
ModelValidationException(attr_path, validation_func, cause) ==
    [type |-> "ModelValidationException", attr_path |-> attr_path,
     validation_func |-> validation_func, cause |-> cause]

\* result[member_path].append(res) on a defaultdict(list)
ResultAppend(result, member_path, res) ==
    IF member_path \in DOMAIN result
    THEN [result EXCEPT ![member_path] = Append(@, res)]
    ELSE result @@ (member_path :> <<res>>)

RECURSIVE CallLoop(_, _, _, _, _, _, _, _)
\* the two nested loops of _call_validators, at validator vi of the fi-th
\* field of validators_map; calls is the log of validator invocations
CallLoop(heap, self, validators_map, stop_on_error, fi, vi, result, calls) ==
    IF fi > Len(validators_map.order)
    THEN [raised |-> FALSE, result |-> result, calls |-> calls]
    ELSE
    LET field == validators_map.order[fi]
        validators == validators_map.v[field]
    IN
    IF field \notin DOMAIN heap[self].fields           \* getattr(self, field)
    THEN [raised |-> TRUE, exc |-> Exc("AttributeError"), calls |-> calls]
    ELSE IF vi > Len(validators)
    THEN CallLoop(heap, self, validators_map, stop_on_error, fi + 1, 1, result, calls)
    ELSE
    LET field_value == heap[self].fields[field]
        member_path == GetAttrPath(heap, self, field)
        validator == validators[vi].func
        args == GetExtraValidateArgs(heap, self, validator, field)
        r == CallValidator(heap, validator, field_value, args)
        calls1 == Append(calls, [critical |-> stop_on_error, self |-> self,
                                 field |-> field, func |-> validator,
                                 args |-> args, out |-> r.out])
    IN
    IF r.out = "raise"
    THEN [raised |-> TRUE,
          exc |-> ModelValidationException(member_path, validator, r.exc),
          calls |-> calls1]
    ELSE IF r.out = "error"
    THEN IF stop_on_error
         THEN [raised |-> FALSE, result |-> ResultAppend(result, member_path, r.res),
               calls |-> calls1]
         ELSE CallLoop(heap, self, validators_map, stop_on_error, fi, vi + 1,
                       ResultAppend(result, member_path, r.res), calls1)
    ELSE CallLoop(heap, self, validators_map, stop_on_error, fi, vi + 1, result, calls1)

\* Model._call_validators
CallValidators(heap, self, validators_map, stop_on_error, calls) ==
    IF validators_map = NoMap
    THEN [raised |-> FALSE, result |-> <<>>, calls |-> calls]
    ELSE CallLoop(heap, self, validators_map, stop_on_error, 1, 1, <<>>, calls)

\* the nodes _bfs appends to its queue for one field value
Enqueued(heap, value) ==
    IF ~IsRef(value) THEN <<>>
    ELSE IF heap[value.id].k = "node" THEN <<value.id>>
    ELSE IF heap[value.id].k = "list"
         THEN LET items == heap[value.id].v
                  IsNode(v) == IsRef(v) /\ heap[v.id].k = "node"
              IN  [j \in 1..Len(SelectSeq(items, IsNode)) |-> SelectSeq(items, IsNode)[j].id]
         ELSE <<>>

RECURSIVE Bfs(_, _, _)
\* Model._bfs: the nodes in the order the generator yields them
Bfs(heap, q, yielded) ==
    IF q = <<>> THEN yielded
    ELSE LET node == Head(q)
             fields == Annotations(heap[node].cls)
             found == Flatten([i \in 1..Len(fields) |->
                                 Enqueued(heap, heap[node].fields[fields[i][1]])])
         IN  Bfs(heap, Tail(q) \o found, Append(yielded, node))

RECURSIVE CriticalPassNoReturn(_, _, _, _, _, _)
\* CriticalPass where the `return critical_errors, exceptions` is lost,
\* the scan goes on to the next node
CriticalPassNoReturn(heap, reg, nodes, i, exceptions, calls) ==
    IF i > Len(nodes)
    THEN [returned |-> FALSE, exceptions |-> exceptions, calls |-> calls]
    ELSE LET r == CallValidators(heap, nodes[i], reg.critical[heap[nodes[i]].cls],
                                 TRUE, calls) IN
         IF r.raised
         THEN CriticalPassNoReturn(heap, reg, nodes, i + 1, Append(exceptions, r.exc),
                                   r.calls)
         ELSE CriticalPassNoReturn(heap, reg, nodes, i + 1, exceptions, r.calls)

RECURSIVE CriticalPass(_, _, _, _, _, _)
\* the first loop of validate, at the i-th node of the traversal
CriticalPass(heap, reg, nodes, i, exceptions, calls) ==
    IF i > Len(nodes)
    THEN [returned |-> FALSE, exceptions |-> exceptions, calls |-> calls]
    ELSE LET r == CallValidators(heap, nodes[i], reg.critical[heap[nodes[i]].cls],
                                 TRUE, calls) IN
         IF r.raised
         THEN CriticalPass(heap, reg, nodes, i + 1, Append(exceptions, r.exc), r.calls)
         ELSE IF DOMAIN r.result # {}
         THEN [returned |-> TRUE, result |-> r.result, exceptions |-> exceptions,
               calls |-> r.calls]
         ELSE CriticalPass(heap, reg, nodes, i + 1, exceptions, r.calls)

\* result.update(errors)
DictUpdate(result, errors) == errors @@ result

\* NormalPass where the try/except is around the loop, not in it, so the
\* first raise ends the pass
NormalPassAbort(heap, reg, nodes, i, result, exceptions, calls) ==
    LET RECURSIVE Go(_, _, _)
        Go(j, res, cl) ==
            IF j > Len(nodes)
            THEN [result |-> res, exceptions |-> exceptions, calls |-> cl]
            ELSE LET r == CallValidators(heap, nodes[j], reg.normal[heap[nodes[j]].cls],
                                         FALSE, cl) IN
                 IF r.raised
                 THEN [result |-> res, exceptions |-> Append(exceptions, r.exc),
                       calls |-> r.calls]
                 ELSE Go(j + 1, DictUpdate(res, r.result), r.calls)
    IN  Go(i, result, calls)

RECURSIVE NormalPass(_, _, _, _, _, _, _)
\* the second loop of validate, at the i-th node of the traversal
NormalPass(heap, reg, nodes, i, result, exceptions, calls) ==
    IF i > Len(nodes)
    THEN [result |-> result, exceptions |-> exceptions, calls |-> calls]
    ELSE LET r == CallValidators(heap, nodes[i], reg.normal[heap[nodes[i]].cls],
                                 FALSE, calls) IN
         IF r.raised
         THEN NormalPass(heap, reg, nodes, i + 1, result, Append(exceptions, r.exc),
                         r.calls)
         ELSE NormalPass(heap, reg, nodes, i + 1, DictUpdate(result, r.result),
                         exceptions, r.calls)

\* Model.validate: the Error Report, the internal failures, and the log of
\* validator invocations
Validate(heap, reg, self) ==
    LET nodes == Bfs(heap, <<self>>, <<>>)
        c == CriticalPass(heap, reg, nodes, 1, <<>>, <<>>)
    IN  IF c.returned
        THEN [result |-> c.result, exceptions |-> c.exceptions, calls |-> c.calls]
        ELSE NormalPass(heap, reg, nodes, 1, <<>>, c.exceptions, c.calls)

\* ------------------------------------------------------------- reading back
RECURSIVE Snapshot(_, _)
\* the document a heap value denotes, as load reads it (input_dict.get,
\* enumerate): the content without the identities
Snapshot(heap, value) ==
    IF ~IsRef(value) THEN value
    ELSE LET obj == heap[value.id] IN
         IF obj.k = "dict"
         THEN RawDict([key \in DOMAIN obj.v |-> Snapshot(heap, obj.v[key])])
         ELSE RawList([i \in 1..Len(obj.v) |-> Snapshot(heap, obj.v[i])])

RECURSIVE Fields(_, _)
\* what the dataclass __eq__ compares: the class and the declared fields,
\* lists item by item, nested nodes likewise (not _parent_ref, _parent_path)
Fields(heap, value) ==
    IF ~IsRef(value) THEN value
    ELSE LET obj == heap[value.id] IN
         IF obj.k = "node"
         THEN [k |-> "node", cls |-> obj.cls,
               v |-> [f \in DOMAIN obj.fields |-> Fields(heap, obj.fields[f])]]
         ELSE [k |-> "list", v |-> [i \in 1..Len(obj.v) |-> Fields(heap, obj.v[i])]]

RECURSIVE Reachable(_, _)
\* the heap objects reachable from a value: the mutable structure it holds
Reachable(heap, value) ==
    IF ~IsRef(value) THEN {}
    ELSE LET obj == heap[value.id] IN
         {value.id} \cup
         (IF obj.k = "list" THEN UNION {Reachable(heap, obj.v[i]) : i \in 1..Len(obj.v)}
          ELSE IF obj.k = "dict" THEN UNION {Reachable(heap, obj.v[key]) : key \in DOMAIN obj.v}
          ELSE UNION {Reachable(heap, obj.fields[f]) : f \in DOMAIN obj.fields})

\* ------------------------------------------------------------- inputs
SeqsUpTo(S, n) == UNION {[1..m -> S] : m \in 0..n}

\* a description longer than DescLimit
LongStr == "this description is a good deal longer than fifty characters"

\* documents of the validation runs: trees of the shapes A, A-B, A-B-C,
\* A-B-[C..] and A-[[C]], whose values make validators pass, report and
\* raise; neighbouring items of a sequence differ
ValC == {RawDict([x |-> None]), RawDict([x |-> IntV(1)])}
ValSeqs == {cs \in SeqsUpTo(ValC, MaxItems) : \A i \in 1..(Len(cs) - 1) : cs[i] # cs[i + 1]}
ValB == {RawDict([c_objs |-> RawList(cs)]) : cs \in ValSeqs}
        \cup {RawDict([c_obj |-> RawDict([x |-> None]),
                       c_objs |-> RawList(<<RawDict([x |-> IntV(1)])>>)])}
ValDocs ==
    {RawDict([alt |-> a, b_obj |-> b]) :
        a \in {None, StrV("ab"), StrV(LongStr)}, b \in ValB \cup {None}}
    \cup {RawDict([alt |-> StrV("ab"),
                   grid |-> RawList(<<RawList(<<RawDict([x |-> None])>>)>>)])}

\* documents of the parsing runs: every kind of raw value a field can be
\* given, among them values that fail to convert; kind and alt get the same
\* raw value
ParseC == {RawDict([x |-> IntV(3), e |-> IntV(1)]), RawDict([x |-> StrV("3")]),
           RawDict([x |-> StrV("z")])}
ParseB == {RawDict([c_obj |-> c, c_objs |-> RawList(cs)]) :
              c \in {None, RawDict([x |-> IntV(3), e |-> IntV(2)])},
              cs \in SeqsUpTo(ParseC, MaxItems)}
ParseEs == {RawList(es) : es \in SeqsUpTo({IntV(1), IntV(7)}, MaxItems)} \cup {None}
ParseGrid == {None, RawList(<<RawList(<<RawDict([e |-> IntV(2)])>>)>>)}
KindRaws == {None, IntV(5), StrV("5"), StrV("ab")}
ParseDocs ==
    {RawDict([kind |-> v, alt |-> v, b_obj |-> b, es |-> es, grid |-> g]) :
        v \in KindRaws, b \in ParseB \cup {None}, es \in ParseEs, g \in ParseGrid}

\* the registrations a bootstrap step may make: utils.validate(model, field,
\* critical)(callable); "nope" is a field no class declares
BootstrapCalls ==
    {[cls |-> "A", field |-> "alt", func |-> "validate_evpn_svc_description", critical |-> TRUE],
     [cls |-> "A", field |-> "alt", func |-> "validate_evpn_svc_description", critical |-> FALSE],
     [cls |-> "C", field |-> "x", func |-> "required", critical |-> TRUE],
     [cls |-> "C", field |-> "x", func |-> "required", critical |-> FALSE],
     [cls |-> "C", field |-> "x", func |-> "probe", critical |-> FALSE],
     [cls |-> "C", field |-> "e", func |-> "validate_evpn_svc_description", critical |-> FALSE],
     [cls |-> "C", field |-> "nope", func |-> "required", critical |-> FALSE]}

\* ------------------------------------------------------------- state
VARIABLES
    doc,                  \* the raw document given to load, or None before it
    phase,                \* bootstrap, loaded, failed, validated, dumped, reloaded
    validators,           \* cls._validators, by class
    critical_validators,  \* cls._critical_validators, by class
    registrations,        \* the registrations attempted so far, in call order
    raised,               \* what the last call raised, or NoExc
    heap,                 \* the objects built so far
    trace,                \* the _parse_value calls of the last load
    root,                 \* the node load returned, or None
    result,               \* the Error Report validate returned
    exceptions,           \* the internal failures validate returned
    calls,                \* the validator invocations of validate, in order
    dumped,               \* the document dump returned, or None
    reloaded              \* load(dump(root)), or None

vars == <<doc, phase, validators, critical_validators, registrations, raised, heap,
          trace, root, result, exceptions, calls, dumped, reloaded>>

\* load(input_dict) is called with the default parent_path
RootPath == <<"root">>

Registry == [critical |-> critical_validators, normal |-> validators]

Init ==
    /\ doc = None
    /\ phase = "bootstrap"
    /\ validators = [cls \in Classes |-> NoMap]
    /\ critical_validators = [cls \in Classes |-> NoMap]
    /\ registrations = <<>>
    /\ raised = NoExc
    /\ heap = <<>>
    /\ trace = <<>>
    /\ root = None
    /\ result = <<>>
    /\ exceptions = <<>>
    /\ calls = <<>>
    /\ dumped = None
    /\ reloaded = None

\* @validate(model=cls, field=field, critical=critical) on a callable
Register(r) ==
    /\ phase = "bootstrap"
    /\ Len(registrations) < MaxRegs
    /\ LET d == ValidateDecorator(Registry, r.cls, r.field, r.func, r.critical, None) IN
        /\ validators' = d.reg.normal
        /\ critical_validators' = d.reg.critical
        /\ raised' = d.exc
    /\ registrations' = Append(registrations, r)
    /\ UNCHANGED <<doc, phase, heap, trace, root, result, exceptions, calls, dumped,
                   reloaded>>

\* A.load(input_dict)
LoadDoc(input_dict) ==
    /\ phase = "bootstrap"
    /\ doc' = input_dict
    /\ LET r == Load(EmptyState, "A", input_dict, RootPath) IN
        /\ heap' = r.st.heap
        /\ trace' = r.st.trace
        /\ IF r.ok
           THEN root' = r.val /\ raised' = NoExc /\ phase' = "loaded"
           ELSE root' = None /\ raised' = r.exc /\ phase' = "failed"
    /\ UNCHANGED <<validators, critical_validators, registrations, result,
                   exceptions, calls, dumped, reloaded>>

\* root.validate()
ValidateTree ==
    /\ phase = "loaded"
    /\ LET r == Validate(heap, Registry, root.id) IN
        /\ result' = r.result
        /\ exceptions' = r.exceptions
        /\ calls' = r.calls
    /\ raised' = NoExc
    /\ phase' = "validated"
    /\ UNCHANGED <<doc, validators, critical_validators, registrations, heap, trace,
                   root, dumped, reloaded>>

\* root.dump()
DumpTree ==
    /\ phase = "loaded"
    /\ LET r == Dump(heap, root) IN
        /\ heap' = r.heap
        /\ dumped' = r.val
    /\ raised' = NoExc
    /\ phase' = "dumped"
    /\ UNCHANGED <<doc, validators, critical_validators, registrations, trace, root,
                   result, exceptions, calls, reloaded>>

\* A.load(dumped)
LoadDumped ==
    /\ phase = "dumped"
    /\ LET r == Load([heap |-> heap, trace |-> <<>>], "A", Snapshot(heap, dumped),
                     RootPath) IN
        /\ heap' = r.st.heap
        /\ trace' = r.st.trace
        /\ IF r.ok
           THEN reloaded' = r.val /\ raised' = NoExc
           ELSE reloaded' = None /\ raised' = r.exc
    /\ phase' = "reloaded"
    /\ UNCHANGED <<doc, validators, critical_validators, registrations, root, result,
                   exceptions, calls, dumped>>

\* a validation session: bootstrap registrations, load, validate
Next ==
    \/ \E r \in BootstrapCalls : Register(r)
    \/ \E d \in ValDocs : LoadDoc(d)
    \/ ValidateTree

Spec == Init /\ [][Next]_vars

\* a parsing session: load, dump, load the dump
NextParse ==
    \/ \E d \in ParseDocs : LoadDoc(d)
    \/ DumpTree
    \/ LoadDumped

SpecParse == Init /\ [][NextParse]_vars

\* ------------------------------------------------------------- properties
\* the nodes of the loaded tree in the order validate visits them
Visited == IF root = None THEN <<>> ELSE Bfs(heap, <<root.id>>, <<>>)
VisitedSet == {Visited[i] : i \in 1..Len(Visited)}
Pos(node) == CHOOSE i \in 1..Len(Visited) : Visited[i] = node
CallIdx == 1..Len(calls)

\* the error value the logged call c returned
Returned(c) == CallValidator(heap, c.func, heap[c.self].fields[c.field], c.args).res
\* the Error Report key of the logged call c
KeyOf(c) == Dot(heap[c.self].parent_path, c.field)

\* the entries of a registry map in the order _call_validators walks them
Entries(validators_map) ==
    IF validators_map = NoMap THEN <<>>
    ELSE Flatten([i \in 1..Len(validators_map.order) |->
            [j \in 1..Len(validators_map.v[validators_map.order[i]]) |->
                [field |-> validators_map.order[i],
                 func |-> validators_map.v[validators_map.order[i]][j].func]]])

MapOf(node, critical) ==
    IF critical THEN critical_validators[heap[node].cls] ELSE validators[heap[node].cls]

\* the logged calls of one pass on one node, in order
CallsOn(node, critical) ==
    SelectSeq(calls, LAMBDA c : c.self = node /\ c.critical = critical)

\* C1: once a critical validator returns an error, validate has made its last
\* validator call: no later critical validator and no normal validator at all
\* is invoked, and the Error Report is exactly that one error under the key of
\* the field it was registered on.
C1_CriticalShortCircuit ==
    phase = "validated" =>
        \A i \in CallIdx :
            (calls[i].critical /\ calls[i].out = "error") =>
                /\ i = Len(calls)
                /\ \A j \in CallIdx : calls[j].critical
                /\ \A j \in CallIdx : Pos(calls[j].self) <= Pos(calls[i].self)
                /\ result = (KeyOf(calls[i]) :> <<Returned(calls[i])>>)

\* C1 witness: the root's critical validator reported an error while a
\* descendant C with an empty x has a critical validator that would report
\* one too, and normal validators are registered
C1_Witness ==
    /\ phase = "validated"
    /\ \E i \in CallIdx : calls[i].critical /\ calls[i].out = "error"
                          /\ calls[i].self = root.id
    /\ \E n \in VisitedSet :
          /\ heap[n].cls = "C" /\ heap[n].fields["x"] = None
          /\ \E k \in 1..Len(Entries(MapOf(n, TRUE))) :
                Entries(MapOf(n, TRUE))[k] = [field |-> "x", func |-> "required"]
          /\ Entries(MapOf(n, FALSE)) # <<>>

\* the values of a sequence
Range(seq) == {seq[i] : i \in 1..Len(seq)}

\* the internal failure _call_validators raises for the logged call c
FailureOf(c) == ModelValidationException(KeyOf(c), c.func, Exc("TypeError"))

\* the errors the logged calls of the normal pass on a node returned for one
\* field, in call order
ReturnedFor(node, field) ==
    LET cs == SelectSeq(CallsOn(node, FALSE),
                        LAMBDA c : c.field = field /\ c.out = "error")
    IN  [k \in 1..Len(cs) |-> Returned(cs[k])]

\* no validator raised on the node in the pass, and every field of the map
\* is a field of the node
Untroubled(node, critical) ==
    /\ \A c \in Range(CallsOn(node, critical)) : c.out # "raise"
    /\ \A e \in Range(Entries(MapOf(node, critical))) : e.field \in DOMAIN heap[node].fields

\* the pass reaches the node: the critical scan was not ended by an error of
\* an earlier node (the normal pass runs only after a scan without error)
Reaches(node, critical) ==
    \A c \in Range(calls) :
        (c.critical /\ c.out = "error") => (critical /\ Pos(c.self) >= Pos(node))

\* C2: a validator raising on node X does not keep the pass from the nodes
\* after X: each such node Y the pass reaches has its first validator invoked,
\* and a Y on which nothing raises has all of them invoked and, in the normal
\* pass, its returned errors in the Error Report under their keys; every raise
\* is an internal failure, and the Error Report holds returned values only.
C2_CrashIsolation ==
    phase = "validated" =>
        /\ \A c \in Range(calls) : c.out = "raise" => FailureOf(c) \in Range(exceptions)
        /\ \A key \in DOMAIN result : \A v \in Range(result[key]) :
              \E c \in Range(calls) : c.out = "error" /\ KeyOf(c) = key /\ Returned(c) = v
        /\ \A x \in Range(calls) : x.out = "raise" =>
              \A y \in VisitedSet :
                 (Pos(y) > Pos(x.self) /\ Reaches(y, x.critical)) =>
                    LET es == Entries(MapOf(y, x.critical))
                        cs == CallsOn(y, x.critical)
                    IN  /\ (es # <<>> /\ es[1].field \in DOMAIN heap[y].fields) =>
                              (cs # <<>> /\ cs[1].field = es[1].field
                                         /\ cs[1].func = es[1].func)
                        /\ (Untroubled(y, FALSE) /\ ~x.critical) =>
                              /\ Len(cs) = Len(es)
                              /\ \A e \in Range(es) :
                                    ReturnedFor(y, e.field) # <<>> =>
                                       /\ Dot(heap[y].parent_path, e.field) \in DOMAIN result
                                       /\ result[Dot(heap[y].parent_path, e.field)]
                                             = ReturnedFor(y, e.field)

\* C2 witness: a critical and a normal validator raised on the root, and a
\* later node returned an error that is in the Error Report
C2_Witness ==
    /\ phase = "validated"
    /\ \E c \in Range(calls) : c.critical /\ c.out = "raise" /\ c.self = root.id
    /\ \E c \in Range(calls) : ~c.critical /\ c.out = "raise" /\ c.self = root.id
    /\ \E c \in Range(calls) :
          /\ ~c.critical /\ c.out = "error" /\ Pos(c.self) > 1
          /\ KeyOf(c) \in DOMAIN result
    /\ Len(exceptions) = 2

\* C3: a registration that fails with the unknown-field error leaves both
\* registries of every class exactly as they were before the call.
C3_UnknownFieldLeavesRegistries ==
    [][(Len(registrations') = Len(registrations) + 1 /\ raised'.type = "AttributeError")
          => (validators' = validators /\ critical_validators' = critical_validators)]_vars

\* every registration made named a declared field
AllFieldsKnown == \A r \in Range(registrations) : r.field \in FieldNames(r.cls)

\* C4: when the critical pass produced no error, every error value a normal
\* validator returned is in the Error Report, once and in call order, under
\* node.path + "." + field, and the report has no other key and no empty
\* entry.  (Stated for sessions whose registrations all name declared fields.)
C4_ReturnedErrorsReported ==
    (phase = "validated" /\ AllFieldsKnown
        /\ \A c \in Range(calls) : ~(c.critical /\ c.out = "error")) =>
        /\ \A y \in VisitedSet : \A f \in DOMAIN heap[y].fields :
              ReturnedFor(y, f) # <<>> =>
                 /\ Dot(heap[y].parent_path, f) \in DOMAIN result
                 /\ result[Dot(heap[y].parent_path, f)] = ReturnedFor(y, f)
        /\ \A key \in DOMAIN result :
              /\ result[key] # <<>>
              /\ \E y \in VisitedSet : \E f \in DOMAIN heap[y].fields :
                    key = Dot(heap[y].parent_path, f) /\ ReturnedFor(y, f) # <<>>

\* C5: a validator raising on node X hides nothing of X: the errors the
\* validators of the pass returned on X before it are in the Error Report,
\* and when validators are registered after it on X there is a call on X
\* after the raising one.  (Stated for sessions whose registrations all name
\* declared fields.)
C5_RaiseCaughtPerCall ==
    (phase = "validated" /\ AllFieldsKnown) =>
        \A x \in Range(calls) : x.out = "raise" =>
            LET cs == CallsOn(x.self, x.critical)
                es == Entries(MapOf(x.self, x.critical))
            IN  /\ \A c \in Range(cs) : c.out = "error" =>
                      /\ KeyOf(c) \in DOMAIN result
                      /\ Returned(c) \in Range(result[KeyOf(c)])
                /\ Len(cs) < Len(es) => cs[Len(cs)].out # "raise"

\* the raw value load reads for a field of the root document
RawOf(field) ==
    IF doc.k = "dict" /\ field \in DOMAIN doc.v THEN doc.v[field] ELSE None

\* the declared alternatives of a variant field of A
ArgsOf(field) ==
    LET i == CHOOSE j \in 1..Len(Annotations("A")) : Annotations("A")[j][1] = field
    IN  Annotations("A")[i][2].args

\* the alternatives, by position, that parse the raw value to a non-empty value
Winners(field) ==
    {i \in 1..Len(ArgsOf(field)) :
        LET r == ParseValue(EmptyState, RawOf(field), ArgsOf(field)[i], Dot(RootPath, field))
        IN  r.ok /\ r.val # None}

FirstWinner(field) == CHOOSE i \in Winners(field) : \A j \in Winners(field) : i <= j

\* the alternatives, by position, that the load attempted for the field
Attempted(field) ==
    {i \in 1..Len(ArgsOf(field)) :
        \E k \in 1..Len(trace) : trace[k] = <<ArgsOf(field)[i], Dot(RootPath, field)>>}

\* C6: a variant field holds what its first accepting alternative, in
\* declared order, makes of the raw value; no alternative after the winner
\* is attempted; the field is empty exactly when no alternative accepts; the
\* load does not fail on the field while an alternative accepts; and when
\* both alternatives accept, kind (int first) and alt (str first) differ.
C6_VariantFirstMatch ==
    /\ \A field \in {"kind", "alt"} :
          /\ (phase = "failed" /\ raised.type = "ModelParsingException"
                /\ raised.attr_path = Dot(RootPath, field)) => Winners(field) = {}
          /\ phase = "loaded" =>
                LET parsed == heap[root.id].fields[field] IN
                /\ parsed = None <=> Winners(field) = {}
                /\ Winners(field) # {} =>
                      /\ parsed = ParseValue(EmptyState, RawOf(field),
                                             ArgsOf(field)[FirstWinner(field)],
                                             Dot(RootPath, field)).val
                      /\ \A i \in Attempted(field) : i <= FirstWinner(field)
    /\ (phase = "loaded" /\ Winners("kind") = {1, 2}) =>
          heap[root.id].fields["kind"] # heap[root.id].fields["alt"]

\* the index segments a path can hold
IndexSegments == {ToString(i) : i \in 0..MaxItems}

Prefixes(path) == {SubSeq(path, 1, n) : n \in 1..Len(path)}

\* the paths of the sequence elements whose parse failed: the elements on
\* the way to the parse call that raised, which is the last one begun
FailedElements ==
    IF phase # "failed" \/ trace = <<>> THEN {}
    ELSE {p \in Prefixes(trace[Len(trace)][2]) : p[Len(p)] \in IndexSegments}

RECURSIVE ExcPaths(_)
\* the attribute paths a failure carries, its chain of causes included
ExcPaths(exc) ==
    IF "attr_path" \in DOMAIN exc THEN {exc.attr_path} \cup ExcPaths(exc.cause) ELSE {}

\* C7: when the element at index i of a sequence field fails to parse, the
\* load fails and the failure it reports carries the path of that element,
\* field path + "." + i (looked for in the failure and in all of its causes).
C7_ElementPathInFailure ==
    \A p \in FailedElements : p \in ExcPaths(raised)

\* C8: load(dump(t)) succeeds and equals t field for field at every level,
\* and the document dump returned has no list or dict in common with t.
C8_RoundTrip ==
    /\ phase \in {"dumped", "reloaded"} =>
          Reachable(heap, dumped) \cap Reachable(heap, root) = {}
    /\ phase = "reloaded" =>
          /\ raised = NoExc
          /\ reloaded # None
          /\ Fields(heap, reloaded) = Fields(heap, root)

\* a tree with a nested node, a sequence of nodes, a sequence of enums, a
\* coerced scalar and absent fields has been dumped and loaded again
C8_Witness ==
    /\ phase = "reloaded"
    /\ reloaded # None
    /\ LET t == Fields(heap, root).v IN
        /\ t.kind = IntV(5) /\ doc.v.kind = StrV("5")
        /\ t.b_obj # None
        /\ t.b_obj.v.c_obj # None
        /\ Len(t.b_obj.v.c_objs.v) >= 1
        /\ t.b_obj.v.c_objs.v[1].v.e = None
        /\ t.es # None
        /\ Len(t.es.v) >= 1
        /\ t.grid = None

\* C9: no enumerated object is left anywhere in the document dump returned:
\* not in a field, not in a nested document, not as an element of a sequence.
C9_DumpNormalizesEnums ==
    phase \in {"dumped", "reloaded"} =>
        \A id \in Reachable(heap, dumped) :
            \A j \in DOMAIN heap[id].v : heap[id].v[j].k # "enum"

\* every node of the loaded tree, however it is held
TreeNodes ==
    IF root = None THEN {}
    ELSE {id \in Reachable(heap, root) : heap[id].k = "node"}

\* the nodes held as an element of a sequence
ListHeld ==
    {n \in TreeNodes : \E l \in Reachable(heap, root) :
        heap[l].k = "list" /\ Ref(n) \in Range(heap[l].v)}

\* C10 as stated: from every node of the loaded tree the parent chain ends
\* at the node load returned, which is the only node with no parent, and
\* every root-ancestor argument a validator was given is that node.
C10_RootFromEveryNode ==
    phase \in {"loaded", "validated"} =>
        /\ \A n \in TreeNodes :
              /\ GetRootRef(heap, n) = root.id
              /\ heap[n].parent_ref = 0 <=> n = root.id
        /\ \A c \in Range(calls) :
              "root_ref" \in DOMAIN c.args => c.args["root_ref"].ref = root.id

\* C10 amended: the same for the nodes validate visits, those held in a
\* field or as an element of a sequence that is a field value, at any depth
\* of such holdings: the chain from each ends at the node load returned, the
\* only visited node with no parent, a parent is visited before its child,
\* and every root-ancestor argument given is that node.  A node inside a
\* sequence of sequences has no parent and no validator is called on it.
C10_RootFromVisitedNodes ==
    phase \in {"loaded", "validated"} =>
        /\ \A n \in VisitedSet :
              /\ GetRootRef(heap, n) = root.id
              /\ heap[n].parent_ref = 0 <=> n = root.id
              /\ n # root.id => /\ heap[n].parent_ref \in VisitedSet
                                /\ Pos(heap[n].parent_ref) < Pos(n)
        /\ \A c \in Range(calls) :
              /\ c.self \in VisitedSet
              /\ "root_ref" \in DOMAIN c.args => c.args["root_ref"].ref = root.id
        /\ \A n \in TreeNodes \ VisitedSet : heap[n].parent_ref = 0

\* validators asking for the root ancestor ran on a grandchild held in a
\* field and on a grandchild held in a sequence
C10_Witness ==
    /\ phase = "validated"
    /\ \E c \in Range(calls) :
          /\ "root_ref" \in DOMAIN c.args
          /\ heap[c.self].parent_ref \notin {0, root.id}
          /\ c.self \in ListHeld
    /\ \E c \in Range(calls) :
          /\ "root_ref" \in DOMAIN c.args
          /\ heap[c.self].parent_ref \notin {0, root.id}
          /\ c.self \notin ListHeld

RECURSIVE DirectlyNested(_, _)
\* the nodes reached from a node through fields that hold a node directly,
\* each with the path root.f1...fk of the fields followed
DirectlyNested(path, node) ==
    {<<path, node>>} \cup
    UNION {DirectlyNested(Dot(path, f), heap[node].fields[f].id) :
              f \in {g \in DOMAIN heap[node].fields :
                        /\ IsRef(heap[node].fields[g])
                        /\ heap[heap[node].fields[g].id].k = "node"}}

\* C11: a node reached from the root through directly held fields f1..fk
\* stores the path root.f1...fk, and a validator of its field g is given
\* that path as node path and root.f1...fk.g as field path; an error it
\* returns is in the Error Report under root.f1...fk.g (when no validator
\* raised on the node in that pass) and a failure it raises carries
\* root.f1...fk.g.
C11_DirectPaths ==
    phase \in {"loaded", "validated"} =>
        \A pn \in DirectlyNested(RootPath, root.id) :
            LET path == pn[1]
                node == pn[2]
            IN  /\ heap[node].parent_path = path
                /\ \A c \in Range(calls) : c.self = node =>
                      LET key == Dot(path, c.field) IN
                      /\ "attr_path" \in DOMAIN c.args => c.args["attr_path"].path = key
                      /\ "parent_path" \in DOMAIN c.args => c.args["parent_path"].path = path
                      /\ (c.out = "error" /\ Untroubled(node, c.critical)) =>
                            /\ key \in DOMAIN result
                            /\ Returned(c) \in Range(result[key])
                      /\ c.out = "raise" =>
                            \E e \in Range(exceptions) :
                                e.type = "ModelValidationException" /\ e.attr_path = key

\* a validator of field x of the node under root.b_obj.c_obj was given the
\* field path and its error is reported under root.b_obj.c_obj.x
C11_Witness ==
    /\ phase = "validated"
    /\ <<"root", "b_obj", "c_obj", "x">> \in DOMAIN result
    /\ \E c \in Range(calls) :
          /\ heap[c.self].parent_path = <<"root", "b_obj", "c_obj">>
          /\ c.out = "error"
          /\ "attr_path" \in DOMAIN c.args

\* the nodes held as elements of a sequence that is the value of a field:
\* records of the holding node, the field, the index and the element
Elements ==
    {el \in [parent : TreeNodes, field : UNION {FieldNames(cls) : cls \in Classes},
             i : 1..MaxItems, node : TreeNodes] :
        /\ el.field \in DOMAIN heap[el.parent].fields
        /\ IsRef(heap[el.parent].fields[el.field])
        /\ heap[heap[el.parent].fields[el.field].id].k = "list"
        /\ el.i <= Len(heap[heap[el.parent].fields[el.field].id].v)
        /\ heap[heap[el.parent].fields[el.field].id].v[el.i] = Ref(el.node)}

\* C12 as stated: a node held as element i of the sequence under field f of
\* parent p stores p.path + "." + f, without the index, so the node elements
\* of one sequence store the same path.
C12_ElementStoresFieldPath ==
    \A el \in Elements :
        heap[el.node].parent_path = Dot(heap[el.parent].parent_path, el.field)

\* C12 amended: a node held as element i of the sequence under field f of
\* parent p stores p.path + "." + f + "." + i, the path the parser used for
\* the element, so the node elements of one sequence store different paths.
C12_ElementStoresIndexedPath ==
    /\ \A el \in Elements :
          heap[el.node].parent_path =
              Dot(Dot(heap[el.parent].parent_path, el.field), ToString(el.i - 1))
    /\ \A e1, e2 \in Elements :
          (e1.parent = e2.parent /\ e1.field = e2.field /\ e1.i # e2.i) =>
              heap[e1.node].parent_path # heap[e2.node].parent_path

\* a sequence of two nodes under a nested node has been loaded
C12_Witness ==
    /\ phase = "loaded"
    /\ \E e1, e2 \in Elements :
          /\ e1.parent = e2.parent /\ e1.field = e2.field
          /\ e1.i = 1 /\ e2.i = 2
          /\ e1.parent # root.id

====
